---- MODULE Spec2Model ----
(***************************************************************************)
(* A model of pdf_extractor.py: the batch driver (main, iterate_files),    *)
(* the extraction functions (extract_data, extract_metadata,               *)
(* extract_tabledata) and the store (setup_sql, write_sql).                *)
(*                                                                         *)
(* A string is an atomic TLA+ string where the program only copies it, a   *)
(* sequence of words where the program looks inside it (a table cell), and *)
(* a sequence of digits where the program converts it (a captured number). *)
(* An optional value (Python None or a value) is a sequence of length 0 or *)
(* 1.                                                                      *)
(***************************************************************************)
EXTENDS Integers, Sequences, FiniteSets, TLC

VARIABLES
    pc,              \* position of the program
    document,        \* the document given to extract_metadata / extract_tabledata
    result,          \* what the extraction function returned
    files,           \* the list given to iterate_files
    fileIdx,         \* position of "for pdf_file in files"
    extracted_data,  \* iterate_files' local: what extract_data returned
    rowIdx,          \* position of "for row in extracted_data['all_rows']"
    tableExists,     \* the store: does mesc_reports exist
    store,           \* the store: the committed rows of mesc_reports
    txn,             \* rows inserted on the open connection, not yet committed
    prior,           \* the rows the store held when main started
    setup_failed,    \* setup_sql caught an sqlite3.Error
    attempted,       \* the files extract_data was called on, in call order
    written,         \* the files write_sql was called on, in call order
    row_log,         \* one entry per row write_sql reached: what happened to it
    conn_log         \* the files whose write_sql could not open the store

vars == <<pc, document, result, files, fileIdx, extracted_data, rowIdx,
          tableExists, store, txn, prior, setup_failed, attempted, written,
          row_log, conn_log>>

(***************************************************************************)
(* Bounds of the model.                                                    *)
(***************************************************************************)
MaxPages == 2
MaxLines == 2
MaxTables == 2
MaxRows == 3
MaxFiles == 2
MaxBody == 3

\* write_sql reads row[0] .. row[5]
RowWidth == 6

None == <<>>
Some(v) == <<v>>

\* the sequences over S of length at most n
SeqsUpTo(S, n) == UNION {[1..k -> S] : k \in 0..n}

Min(S) == CHOOSE m \in S : \A n \in S : m <= n

(***************************************************************************)
(* Page text.  A text is a sequence of lines; a line either matches the    *)
(* identity pattern, the period pattern, or neither.  The captured groups  *)
(* are strings: a name is kept as it is, a number is a digit sequence.     *)
(***************************************************************************)
LineKinds == {"name", "period", "other"}

\* line l of page p of file f, when it is a name line: "First<fpl> SUR<fpl>"
Tag(f, p, l) == ToString(f) \o ToString(p) \o ToString(l)

NameLine(f, p, l) ==
    [kind |-> "name", groups |-> <<"First" \o Tag(f, p, l), "SUR" \o Tag(f, p, l)>>]

\* when it is a period line: "Semester l, 20fp - Progress Report (p+l)"
PeriodLine(f, p, l) ==
    [kind |-> "period", groups |-> << <<l>>, <<2, 0, f, p>>, <<p + l>> >>]

OtherLine == [kind |-> "other", groups |-> <<>>]

MakeLine(kind, f, p, l) ==
    IF kind = "name" THEN NameLine(f, p, l)
    ELSE IF kind = "period" THEN PeriodLine(f, p, l)
    ELSE OtherLine

\* int(): the value of a digit sequence
RECURSIVE int(_)
int(ds) == IF ds = <<>> THEN 0 ELSE 10 * int(SubSeq(ds, 1, Len(ds) - 1)) + ds[Len(ds)]

\* pattern.search(page_text) with re.MULTILINE: the leftmost match is on the
\* first line that matches; None when no line does
RECURSIVE search(_, _, _)
search(kind, page_text, l) ==
    IF l > Len(page_text) THEN None
    ELSE IF page_text[l].kind = kind THEN Some(page_text[l].groups)
    ELSE search(kind, page_text, l + 1)

nm_search(page_text) == search("name", page_text, 1)
se_search(page_text) == search("period", page_text, 1)

(***************************************************************************)
(* Tables.  A cell is a sequence of words, a row a sequence of cells.      *)
(***************************************************************************)
Marker == <<"Areas", "Of", "Assessment">>
EmptyCell == <<>>

HeaderKinds == {"first", "other", "substring", "plain"}

HeaderRow(kind) ==
    IF kind = "first" THEN <<Marker, EmptyCell>>
    ELSE IF kind = "other" THEN <<EmptyCell, Marker>>
    ELSE IF kind = "substring" THEN <<<<"Key">> \o Marker, EmptyCell>>
    ELSE <<<<"Subject">>, EmptyCell>>

\* a row below the header: cell c of row r of table t of page p of file f
BodyRow(f, p, t, r, width) ==
    [c \in 1..width |-> <<"cell", ToString(f), ToString(p), ToString(t), ToString(r), ToString(c)>>]

\* s occurs in text as a contiguous part (Python's "s in text" on strings)
Contains(text, s) ==
    \E k \in 0..(Len(text) - Len(s)) : SubSeq(text, k + 1, k + Len(s)) = s

\* x in a Python list: some element equals x
InList(x, list) == \E k \in 1..Len(list) : list[k] = x

(***************************************************************************)
(* Documents.  A page exposes get_text() and find_tables(), each of which  *)
(* may raise; a detected table exposes extract(), which may raise.         *)
(***************************************************************************)
Table(extract_raises, rows) == [extract_raises |-> extract_raises, rows |-> rows]

Page(text_raises, text, tables_raises, tables) ==
    [text_raises |-> text_raises, text |-> text,
     tables_raises |-> tables_raises, tables |-> tables]

Exceptions == {"FileDataError", "TypeError", "IndexError", "sqlite3.Error"}
SqliteErrors == {"sqlite3.Error"}

(***************************************************************************)
(* extract_metadata                                                        *)
(***************************************************************************)
\* the body of the try for one page: None stands for "continue"
page_metadata(page) ==
    IF page.text_raises THEN None
    ELSE LET name_match == nm_search(page.text)
             semester_match == se_search(page.text)
         IN  IF name_match = None THEN None
             ELSE IF semester_match = None THEN None
             ELSE Some([firstname |-> name_match[1][1],
                        surname |-> name_match[1][2],
                        year |-> int(semester_match[1][2]),
                        semester |-> int(semester_match[1][1]),
                        report |-> int(semester_match[1][3])])

RECURSIVE extract_metadata_from(_, _)
extract_metadata_from(doc, p) ==
    IF p > Len(doc) THEN None
    ELSE IF page_metadata(doc[p]) # None THEN page_metadata(doc[p])
    ELSE extract_metadata_from(doc, p + 1)

\* a scan that keeps going and returns the last page that matches
RECURSIVE extract_metadata_last(_, _)
extract_metadata_last(doc, p) ==
    IF p < 1 THEN None
    ELSE IF page_metadata(doc[p]) # None THEN page_metadata(doc[p])
    ELSE extract_metadata_last(doc, p - 1)

extract_metadata_lastwins(doc) == extract_metadata_last(doc, Len(doc))

extract_metadata(doc) == extract_metadata_from(doc, 1)

(***************************************************************************)
(* extract_tabledata                                                       *)
(***************************************************************************)
\* the marker sits in the first cell of the first row
has_marker_firstcell(table_rows) ==
    table_rows # <<>> /\ table_rows[1] # <<>> /\ table_rows[1][1] = Marker

\* table_rows and "Areas Of Assessment" in table_rows[0]
has_marker(table_rows) ==
    table_rows # <<>> /\ InList(Marker, table_rows[1])

\* table_rows[2:]
slice_from_2(table_rows) == SubSeq(table_rows, 3, Len(table_rows))

\* a loop over the tables of one page that steps over a table whose
\* extract() raises
RECURSIVE page_tabledata_skiptable(_, _)
page_tabledata_skiptable(tables, t) ==
    IF t > Len(tables) THEN [kind |-> "exhausted", rows |-> <<>>]
    ELSE IF tables[t].extract_raises THEN page_tabledata_skiptable(tables, t + 1)
    ELSE IF has_marker(tables[t].rows)
         THEN [kind |-> "return", rows |-> slice_from_2(tables[t].rows)]
    ELSE page_tabledata_skiptable(tables, t + 1)

\* the loop over the tables of one page, from table t on: it returns the
\* rows, runs out of tables, or leaves by the exception of table.extract()
RECURSIVE page_tabledata(_, _)
page_tabledata(tables, t) ==
    IF t > Len(tables) THEN [kind |-> "exhausted", rows |-> <<>>]
    ELSE IF tables[t].extract_raises THEN [kind |-> "raise", rows |-> <<>>]
    ELSE IF has_marker(tables[t].rows)
         THEN [kind |-> "return", rows |-> slice_from_2(tables[t].rows)]
    ELSE page_tabledata(tables, t + 1)

RECURSIVE extract_tabledata_from(_, _)
extract_tabledata_from(doc, p) ==
    IF p > Len(doc) THEN None
    ELSE IF doc[p].tables_raises THEN extract_tabledata_from(doc, p + 1)
    ELSE LET out == page_tabledata(doc[p].tables, 1)
         IN  IF out.kind = "return" THEN Some(out.rows)
             ELSE extract_tabledata_from(doc, p + 1)

extract_tabledata(doc) == extract_tabledata_from(doc, 1)

(***************************************************************************)
(* extract_data.  A file is [openable, pages]; the outcome is an exception *)
(* that leaves the function, or the returned value (None or the record).   *)
(***************************************************************************)
Raised(e) == [exc |-> Some(e), value |-> None]
Returned(v) == [exc |-> None, value |-> v]

\* return {**extracted_metadata, "all_rows": extracted_tabledata}
merge(extracted_metadata, extracted_tabledata) ==
    [firstname |-> extracted_metadata.firstname,
     surname |-> extracted_metadata.surname,
     year |-> extracted_metadata.year,
     semester |-> extracted_metadata.semester,
     report |-> extracted_metadata.report,
     all_rows |-> extracted_tabledata]

\* an extract_data that also returns None for an empty row list
extract_body_nonempty(pages) ==
    LET extracted_metadata == extract_metadata(pages)
        extracted_tabledata == extract_tabledata(pages)
    IN  IF extracted_metadata = None THEN None
        ELSE IF extracted_tabledata = None \/ extracted_tabledata = Some(<<>>) THEN None
        ELSE Some(merge(extracted_metadata[1], extracted_tabledata[1]))

\* the body of the with statement of extract_data
extract_body(pages) ==
    LET extracted_metadata == extract_metadata(pages)
        extracted_tabledata == extract_tabledata(pages)
    IN  IF extracted_metadata = None THEN None
        ELSE IF extracted_tabledata = None THEN None
        ELSE Some(merge(extracted_metadata[1], extracted_tabledata[1]))

\* pymupdf.open raises on a file it cannot decode; the handler's own
\* logging.exception() is called without its required msg argument, which
\* raises TypeError out of the handler
extract_data(current_file) ==
    IF ~current_file.openable THEN Raised("TypeError")
    ELSE Returned(extract_body(current_file.pages))

(***************************************************************************)
(* Inputs of the extraction functions.                                     *)
(***************************************************************************)
\* pages of text only: each page's get_text() raises, or gives at most
\* MaxLines lines; line l of page p carries p and l in what it captures
TextPageShapes ==
    {[raises |-> TRUE, kinds |-> <<>>]}
        \cup {[raises |-> FALSE, kinds |-> k] : k \in SeqsUpTo(LineKinds, MaxLines)}

TextDocument(shape) ==
    [p \in 1..Len(shape) |->
        Page(shape[p].raises,
             [l \in 1..Len(shape[p].kinds) |-> MakeLine(shape[p].kinds[l], 1, p, l)],
             FALSE, <<>>)]

\* a detected table: its extract() raises, or it has n rows (0..MaxRows), the
\* first of them a header row of one of the kinds
TableShapes ==
    {[raises |-> TRUE, hdr |-> "plain", n |-> 0], [raises |-> FALSE, hdr |-> "plain", n |-> 0]}
        \cup {[raises |-> FALSE, hdr |-> h, n |-> n] : h \in HeaderKinds, n \in 1..MaxRows}

\* how many tables each page has: -1 for a page whose find_tables() raises;
\* at most MaxPages pages holding at most MaxTables tables in all
RECURSIVE TotalTables(_)
TotalTables(counts) ==
    IF counts = <<>> THEN 0
    ELSE (IF Head(counts) < 0 THEN 0 ELSE Head(counts)) + TotalTables(Tail(counts))

PageCounts == {c \in SeqsUpTo((-1)..MaxTables, MaxPages) : TotalTables(c) <= MaxTables}

TablePositions(counts) ==
    {pt \in (1..Len(counts)) \X (1..MaxTables) : pt[2] <= counts[pt[1]]}

MakeTable(f, p, t, shape, width) ==
    Table(shape.raises,
          [r \in 1..shape.n |-> IF r = 1 THEN HeaderRow(shape.hdr)
                                ELSE BodyRow(f, p, t, r, width)])

TableDocument(counts, shapes) ==
    [p \in 1..Len(counts) |->
        Page(FALSE, <<>>, counts[p] < 0,
             [t \in 1..(IF counts[p] < 0 THEN 0 ELSE counts[p]) |->
                 MakeTable(1, p, t, shapes[<<p, t>>], 1)])]

(***************************************************************************)
(* The extraction functions applied to every document of the bounded sets. *)
(***************************************************************************)
Idle ==
    /\ files = <<>>
    /\ fileIdx = 1
    /\ extracted_data = None
    /\ rowIdx = 1
    /\ tableExists = FALSE
    /\ store = <<>>
    /\ txn = <<>>
    /\ prior = <<>>
    /\ setup_failed = FALSE
    /\ attempted = <<>>
    /\ written = <<>>
    /\ row_log = <<>>
    /\ conn_log = {}

InitMetadata ==
    /\ pc = "extract_metadata"
    /\ document \in {TextDocument(s) : s \in SeqsUpTo(TextPageShapes, MaxPages)}
    /\ result = None
    /\ Idle

CallExtractMetadata ==
    /\ pc = "extract_metadata"
    /\ result' = extract_metadata(document)
    /\ pc' = "metadata_returned"
    /\ UNCHANGED <<document, files, fileIdx, extracted_data, rowIdx, tableExists, store,
                   txn, prior, setup_failed, attempted, written, row_log, conn_log>>

SpecMetadata == InitMetadata /\ [][CallExtractMetadata]_vars

InitTabledata ==
    /\ pc = "extract_tabledata"
    /\ \E counts \in PageCounts :
         \E shapes \in [TablePositions(counts) -> TableShapes] :
            document = TableDocument(counts, shapes)
    /\ result = None
    /\ Idle

CallExtractTabledata ==
    /\ pc = "extract_tabledata"
    /\ result' = extract_tabledata(document)
    /\ pc' = "tabledata_returned"
    /\ UNCHANGED <<document, files, fileIdx, extracted_data, rowIdx, tableExists, store,
                   txn, prior, setup_failed, attempted, written, row_log, conn_log>>

SpecTabledata == InitTabledata /\ [][CallExtractTabledata]_vars

(***************************************************************************)
(* Properties of extract_metadata (SpecMetadata).                          *)
(***************************************************************************)
HasLine(page, kind) == \E l \in 1..Len(page.text) : page.text[l].kind = kind
FirstLine(page, kind) == Min({l \in 1..Len(page.text) : page.text[l].kind = kind})

\* both patterns match the text of page p, and the text could be read
BothMatch(doc, p) ==
    ~doc[p].text_raises /\ HasLine(doc[p], "name") /\ HasLine(doc[p], "period")

MetadataFields == {"firstname", "surname", "year", "semester", "report"}

\* what the lines of page p of file f say: its first name line, l, names
\* First<fpl> SUR<fpl> and its first period line, l, reads
\* "Semester l, 20fp - Progress Report p+l"
PageSays(f, doc, p) ==
    LET ln == FirstLine(doc[p], "name")
        lp == FirstLine(doc[p], "period")
    IN  [firstname |-> "First" \o Tag(f, p, ln),
         surname |-> "SUR" \o Tag(f, p, ln),
         year |-> 2000 + 10 * f + p,
         semester |-> lp,
         report |-> p + lp]

\* C6: extract_metadata returns the five fields captured on the first page, in
\* document order, on which both patterns match (both captures from that page),
\* skipping pages where a pattern fails or get_text() raises; it returns None
\* iff no page matches both, and never a record with fewer than five fields.
C6_FirstMatchWins ==
    pc = "metadata_returned" =>
        LET matching == {p \in 1..Len(document) : BothMatch(document, p)}
        IN  IF matching = {} THEN result = None
            ELSE /\ result = Some(PageSays(1, document, Min(matching)))
                 /\ DOMAIN result[1] = MetadataFields

\* page 1 has only a name line, pages 1 and 2 are followed by nothing else:
\* page 2 matches both patterns and its captures are returned
C6_Witness ==
    /\ pc = "metadata_returned"
    /\ Len(document) = 2
    /\ HasLine(document[1], "name") /\ ~HasLine(document[1], "period")
    /\ BothMatch(document, 2)
    /\ FirstLine(document[2], "name") = 2
    /\ result = Some([firstname |-> "First122", surname |-> "SUR122", year |-> 2012,
                      semester |-> 1, report |-> 3])

(***************************************************************************)
(* Properties of extract_tabledata (SpecTabledata).                        *)
(***************************************************************************)
\* the tables of a document, as <<page, index on the page>>
Positions(doc) ==
    {pt \in (1..Len(doc)) \X (1..MaxTables) : pt[2] <= Len(doc[pt[1]].tables)}

Before(a, b) == a[1] < b[1] \/ (a[1] = b[1] /\ a[2] <= b[2])
First(Q) == CHOOSE a \in Q : \A b \in Q : Before(a, b)

RowsOf(doc, pt) == doc[pt[1]].tables[pt[2]].rows

\* rows 2 .. N-1 (counting from 0) of a table of N rows
FromIndex2(rows) == [k \in 1..(IF Len(rows) >= 3 THEN Len(rows) - 2 ELSE 0) |-> rows[k + 2]]

\* the result the scan must give when the tables in Q are the ones that qualify
RowsOfFirst(doc, Q) ==
    IF Q = {} THEN None ELSE Some(FromIndex2(RowsOf(doc, First(Q))))

NoExtractionError(doc) ==
    /\ \A p \in 1..Len(doc) : ~doc[p].tables_raises
    /\ \A pt \in Positions(doc) : ~doc[pt[1]].tables[pt[2]].extract_raises

FirstCellContainsMarker(rows) ==
    rows # <<>> /\ rows[1] # <<>> /\ Contains(rows[1][1], Marker)

SomeCellIsMarker(rows) ==
    rows # <<>> /\ \E c \in 1..Len(rows[1]) : rows[1][c] = Marker

\* C4 as stated: the table selected is the first non-empty one whose first
\* row's first cell contains the marker; the rows from index 2 are returned,
\* None iff no table qualifies (documents in which nothing raises).
C4_FirstCellContains ==
    (pc = "tabledata_returned" /\ NoExtractionError(document)) =>
        result = RowsOfFirst(document,
                    {pt \in Positions(document) : FirstCellContainsMarker(RowsOf(document, pt))})

\* C4 amended: the table selected is the first non-empty one, in page order and
\* then detection order, whose first row has a cell equal to the marker (in any
\* position; a cell that merely contains the marker does not count); the rows
\* from index 2 are returned (N-2 rows for N >= 3, none for N < 3), None iff no
\* table qualifies (documents in which nothing raises).
C4_SomeCellEquals ==
    (pc = "tabledata_returned" /\ NoExtractionError(document)) =>
        result = RowsOfFirst(document,
                    {pt \in Positions(document) : SomeCellIsMarker(RowsOf(document, pt))})

\* one page: a table whose first cell only contains the marker, then a table
\* of three rows with the marker in the second cell; the latter is selected
C4_Witness ==
    /\ pc = "tabledata_returned"
    /\ NoExtractionError(document)
    /\ Len(document) = 1
    /\ Len(document[1].tables) = 2
    /\ FirstCellContainsMarker(document[1].tables[1].rows)
    /\ document[1].tables[2].rows = <<HeaderRow("other"), BodyRow(1, 1, 2, 2, 1), BodyRow(1, 1, 2, 3, 1)>>
    /\ result = Some(<<BodyRow(1, 1, 2, 3, 1)>>)

\* the tables whose extract() returned, on pages whose find_tables() returned
Extracted(doc) ==
    {pt \in Positions(doc) : ~doc[pt[1]].tables_raises /\ ~doc[pt[1]].tables[pt[2]].extract_raises}

\* the tables the scan can reach: those of Extracted with no table before them
\* on the same page whose extract() raises
Examined(doc) ==
    {pt \in Extracted(doc) : \A t \in 1..pt[2] : ~doc[pt[1]].tables[t].extract_raises}

\* C10 as stated: an error while extracting one table skips only that table, so
\* the result is that of the first qualifying table among all the tables whose
\* extraction did not raise.
C10_SkipsOnlyTheTable ==
    pc = "tabledata_returned" =>
        result = RowsOfFirst(document,
                    {pt \in Extracted(document) : SomeCellIsMarker(RowsOf(document, pt))})

\* C10 amended: an error while extracting one table skips that table and the
\* tables after it on the same page; later pages are still examined, and a page
\* whose table detection raises is skipped alone.  The result is that of the
\* first qualifying table among the tables examined.
C10_SkipsRestOfPage ==
    pc = "tabledata_returned" =>
        result = RowsOfFirst(document,
                    {pt \in Examined(document) : SomeCellIsMarker(RowsOf(document, pt))})

\* page 1: a table whose extract() raises, then a qualifying table, which is
\* never examined; page 2 has none, and the result is None
C10_Witness ==
    /\ pc = "tabledata_returned"
    /\ Len(document) = 2
    /\ Len(document[1].tables) = 2
    /\ document[1].tables[1].extract_raises
    /\ ~document[1].tables[2].extract_raises
    /\ SomeCellIsMarker(document[1].tables[2].rows)
    /\ ~document[2].tables_raises
    /\ result = None

(***************************************************************************)
(* The store.  A row of mesc_reports is the five metadata fields and six   *)
(* cells of one table row; the store is the sequence of committed rows in  *)
(* insertion order (the surrogate key orders them and is not kept).        *)
(***************************************************************************)
\* the parameters of the INSERT: raises IndexError below six cells
ReportRow(data, row) ==
    [firstname |-> data.firstname, surname |-> data.surname, year |-> data.year,
     semester |-> data.semester, report |-> data.report,
     subject |-> row[1], evidence |-> row[2], personal |-> row[3],
     working |-> row[4], orderly |-> row[5], outside |-> row[6]]

\* a row left in the store by an earlier batch
PriorRow ==
    ReportRow([firstname |-> "Earlier", surname |-> "BATCH", year |-> 2019,
               semester |-> 1, report |-> 1],
              BodyRow(0, 2, 1, 3, RowWidth))

InStore(r) == \E k \in 1..Len(store) : store[k] = r

(***************************************************************************)
(* The files of a batch.  File f either cannot be opened, or has a page of *)
(* text followed by a page of tables.  The text names the student and the  *)
(* period, except in a "no_metadata" file.  The second page has one table  *)
(* that starts with the marker row, except in a "no_table" file; in a      *)
(* "header_only" file the table is that row alone, otherwise a second row  *)
(* follows and then the body: rows of six cells ("full") or five           *)
(* ("short").  The files of a batch have at most MaxBody body rows in all. *)
(***************************************************************************)
FileKinds == {"unopenable", "no_metadata", "no_table", "header_only", "table"}
RowKinds == {"full", "short"}

MakeFile(f, kind, body) ==
    LET text == IF kind = "no_metadata" THEN <<OtherLine>>
                ELSE <<NameLine(f, 1, 1), PeriodLine(f, 1, 2)>>
        rows == <<HeaderRow("first")>>
                    \o (IF kind = "header_only" THEN <<>> ELSE <<BodyRow(f, 2, 1, 2, RowWidth)>>)
                    \o (IF kind = "no_metadata" THEN <<BodyRow(f, 2, 1, 3, RowWidth)>> ELSE <<>>)
                    \o [k \in 1..Len(body) |->
                           BodyRow(f, 2, 1, k + 2,
                                   IF body[k] = "full" THEN RowWidth ELSE RowWidth - 1)]
        tables == IF kind = "no_table" THEN <<>> ELSE <<Table(FALSE, rows)>>
    IN  [openable |-> kind # "unopenable",
         pages |-> IF kind = "unopenable" THEN <<>>
                   ELSE <<Page(FALSE, text, FALSE, <<>>), Page(FALSE, <<>>, FALSE, tables)>>]

RECURSIVE Sum(_)
Sum(counts) == IF counts = <<>> THEN 0 ELSE Head(counts) + Sum(Tail(counts))

\* the batches of n files: a kind for each file and a number of body rows for
\* each "table" file
BatchShapes(n) ==
    {sh \in [kinds : [1..n -> FileKinds], counts : [1..n -> 0..MaxBody]] :
        /\ \A f \in 1..n : sh.kinds[f] # "table" => sh.counts[f] = 0
        /\ Sum(sh.counts) <= MaxBody}

BodyPositions(counts) ==
    {fk \in (1..Len(counts)) \X (1..MaxBody) : fk[2] <= counts[fk[1]]}

MakeFiles(sh, widths) ==
    [f \in 1..Len(sh.kinds) |->
        MakeFile(f, sh.kinds[f], [k \in 1..sh.counts[f] |-> widths[<<f, k>>]])]

(***************************************************************************)
(* Which exceptions each handler catches.                                  *)
(***************************************************************************)
\* except sqlite3.Error around one INSERT
write_row_catches(e) == e \in SqliteErrors

\* except sqlite3.Error around the connection
write_sql_catches(e) == e \in SqliteErrors

\* a handler that names the store's errors only
iterate_files_catches_sqlite(e) == e \in SqliteErrors

\* except Exception in iterate_files
iterate_files_catches(e) == e \in Exceptions

(***************************************************************************)
(* main: setup_sql(), then iterate_files(file_list)                        *)
(***************************************************************************)
Init ==
    /\ pc = "main"
    /\ document = <<>>
    /\ result = None
    /\ \E n \in 0..MaxFiles :
         \E sh \in BatchShapes(n) :
            \E widths \in [BodyPositions(sh.counts) -> RowKinds] :
               files = MakeFiles(sh, widths)
    /\ fileIdx = 1
    /\ extracted_data = None
    /\ rowIdx = 1
    /\ \E had \in BOOLEAN, rows \in {<<>>, <<PriorRow>>} :
         /\ had \/ rows = <<>>
         /\ tableExists = had
         /\ store = rows
         /\ prior = rows
    /\ txn = <<>>
    /\ setup_failed = FALSE
    /\ attempted = <<>>
    /\ written = <<>>
    /\ row_log = <<>>
    /\ conn_log = {}

\* setup_sql: DROP TABLE IF EXISTS; CREATE TABLE.  An sqlite3.Error, raised
\* before the table is dropped (the connection, the DROP) or after it (the
\* CREATE), is logged and swallowed; main goes on to iterate_files either way
SetupSql ==
    /\ pc = "main"
    /\ \E outcome \in {"created", "error", "error_after_drop"} :
         IF outcome = "created"
         THEN /\ tableExists' = TRUE
              /\ store' = <<>>
              /\ UNCHANGED setup_failed
         ELSE IF outcome = "error"
         THEN /\ setup_failed' = TRUE
              /\ UNCHANGED <<tableExists, store>>
         ELSE /\ setup_failed' = TRUE
              /\ tableExists' = FALSE
              /\ store' = <<>>
    /\ pc' = "iterate"
    /\ UNCHANGED <<document, result, files, fileIdx, extracted_data, rowIdx, txn, prior,
                   attempted, written, row_log, conn_log>>

\* an exception e reaches the handler of iterate_files
HandledByIterateFiles(e) ==
    IF iterate_files_catches(e)
    THEN pc' = "iterate" /\ fileIdx' = fileIdx + 1
    ELSE pc' = "crashed" /\ UNCHANGED fileIdx

\* one turn of the loop of iterate_files up to the call of write_sql
ExtractData ==
    /\ pc = "iterate"
    /\ fileIdx <= Len(files)
    /\ attempted' = Append(attempted, fileIdx)
    /\ LET out == extract_data(files[fileIdx])
       IN  IF out.exc # None
           THEN /\ HandledByIterateFiles(out.exc[1])
                /\ UNCHANGED <<extracted_data, written>>
           ELSE IF out.value = None
           THEN /\ pc' = "iterate"
                /\ fileIdx' = fileIdx + 1
                /\ UNCHANGED <<extracted_data, written>>
           ELSE /\ extracted_data' = out.value
                /\ written' = Append(written, fileIdx)
                /\ pc' = "write_sql"
                /\ UNCHANGED fileIdx
    /\ UNCHANGED <<document, result, files, rowIdx, tableExists, store, txn, prior,
                   setup_failed, row_log, conn_log>>

\* an exception e leaves the with block of write_sql: the connection rolls
\* back what it has not committed, then the handlers are tried outwards
LeaveWriteSql(e) ==
    /\ txn' = <<>>
    /\ IF write_sql_catches(e)
       THEN pc' = "iterate" /\ fileIdx' = fileIdx + 1
       ELSE HandledByIterateFiles(e)

\* write_sql: sqlite3.connect(SQL_PATH)
Connect ==
    /\ pc = "write_sql"
    /\ \E ok \in BOOLEAN :
         IF ok THEN /\ pc' = "rows"
                    /\ rowIdx' = 1
                    /\ txn' = <<>>
                    /\ UNCHANGED <<fileIdx, conn_log>>
         ELSE /\ conn_log' = conn_log \cup {fileIdx}
              /\ LeaveWriteSql("sqlite3.Error")
              /\ UNCHANGED rowIdx
    /\ UNCHANGED <<document, result, files, extracted_data, tableExists, store, prior,
                   setup_failed, attempted, written, row_log>>

Logged(outcome) == Append(row_log, [file |-> fileIdx, idx |-> rowIdx, outcome |-> outcome])

\* an exception e is raised in the try around the INSERT of the current row
RaisedAtRow(e, outcome) ==
    /\ row_log' = Logged(outcome)
    /\ IF write_row_catches(e)
       THEN /\ rowIdx' = rowIdx + 1
            /\ UNCHANGED <<pc, fileIdx, txn>>
       ELSE /\ LeaveWriteSql(e)
            /\ UNCHANGED rowIdx

\* write_sql: one turn of "for row in extracted_data['all_rows']"
InsertRow ==
    /\ pc = "rows"
    /\ rowIdx <= Len(extracted_data[1].all_rows)
    /\ LET row == extracted_data[1].all_rows[rowIdx]
       IN  IF Len(row) < RowWidth
           THEN RaisedAtRow("IndexError", "IndexError")
           ELSE \E ok \in (IF tableExists THEN BOOLEAN ELSE {FALSE}) :
                  IF ok THEN /\ txn' = Append(txn, ReportRow(extracted_data[1], row))
                             /\ row_log' = Logged("inserted")
                             /\ rowIdx' = rowIdx + 1
                             /\ UNCHANGED <<pc, fileIdx>>
                  ELSE RaisedAtRow("sqlite3.Error", "rejected")
    /\ UNCHANGED <<document, result, files, extracted_data, tableExists, store, prior,
                   setup_failed, attempted, written, conn_log>>

\* write_sql: the with block ends without an exception and commits
Commit ==
    /\ pc = "rows"
    /\ rowIdx > Len(extracted_data[1].all_rows)
    /\ store' = store \o txn
    /\ txn' = <<>>
    /\ pc' = "iterate"
    /\ fileIdx' = fileIdx + 1
    /\ UNCHANGED <<document, result, files, extracted_data, rowIdx, tableExists, prior,
                   setup_failed, attempted, written, row_log, conn_log>>

\* iterate_files returns, and main with it
Return ==
    /\ pc = "iterate"
    /\ fileIdx > Len(files)
    /\ pc' = "done"
    /\ UNCHANGED <<document, result, files, fileIdx, extracted_data, rowIdx, tableExists,
                   store, txn, prior, setup_failed, attempted, written, row_log, conn_log>>

Next == SetupSql \/ ExtractData \/ Connect \/ InsertRow \/ Commit \/ Return

Spec == Init /\ [][Next]_vars

(***************************************************************************)
(* Properties of the batch (Spec).                                         *)
(***************************************************************************)
FileHasMetadata(file) == \E p \in 1..Len(file.pages) : BothMatch(file.pages, p)

QualifyingTables(file) ==
    {pt \in Examined(file.pages) : SomeCellIsMarker(RowsOf(file.pages, pt))}

\* the file opens, some page matches both patterns and some table qualifies
YieldsResult(f) ==
    files[f].openable /\ FileHasMetadata(files[f]) /\ QualifyingTables(files[f]) # {}

\* the rows from index 2 of the file's first qualifying table
RowsToWrite(f) == FromIndex2(RowsOf(files[f].pages, First(QualifyingTables(files[f]))))

YieldsRows(f) == YieldsResult(f) /\ RowsToWrite(f) # <<>>

\* the metadata of the first page of file f that matches both patterns
MetadataOf(f) ==
    PageSays(f, files[f].pages,
             Min({p \in 1..Len(files[f].pages) : BothMatch(files[f].pages, p)}))

\* the row write_sql builds for row r of file f
RowOf(f, r) == ReportRow(MetadataOf(f), RowsToWrite(f)[r])

InWriteSql == pc \in {"write_sql", "rows"}

Ascending(seq) == seq = [k \in 1..Len(seq) |-> k]

\* C7: whatever stage raises for a file (opening it, the write), the exception
\* stays with that file: iterate_files never raises, the files attempted so
\* far are the files before the loop's position, once each and in the order
\* given, and the loop returns having attempted every file and having called
\* write_sql for every file that yields a result.
C7_FaultIsolation ==
    /\ pc # "crashed"
    /\ Ascending(attempted)
    /\ Len(attempted) = (IF pc = "iterate" \/ pc = "done" THEN fileIdx - 1 ELSE
                         IF pc = "main" THEN 0 ELSE fileIdx)
    /\ pc = "done" => /\ Len(attempted) = Len(files)
                      /\ written = SelectSeq(attempted, YieldsResult)

\* the batch has returned: file 1 raised IndexError in write_sql, file 2 was
\* extracted and written after it
C7_Witness ==
    /\ pc = "done"
    /\ Len(files) = 2
    /\ \E k \in 1..Len(row_log) : row_log[k].file = 1 /\ row_log[k].outcome = "IndexError"
    /\ written = <<1, 2>>
    /\ \E r \in 1..Len(RowsToWrite(2)) :
          Len(RowsToWrite(2)[r]) >= RowWidth /\ InStore(RowOf(2, r))

HasOutcome(f, r, outcome) ==
    \E k \in 1..Len(row_log) : row_log[k] = [file |-> f, idx |-> r, outcome |-> outcome]

\* the loop of write_sql came to row r of file f
Reached(f, r) == \E k \in 1..Len(row_log) : row_log[k].file = f /\ row_log[k].idx = r

\* write_sql was called for file f and the call is over
WriteEnded(f) == f < fileIdx /\ \E k \in 1..Len(written) : written[k] = f

IsShort(row) == Len(row) < RowWidth

\* C1: when the rows given to write_sql include one of fewer than six cells,
\* that row alone is skipped: no row is stored for it, and every other row of
\* the file that has six cells (and that the store did not reject) is in the
\* store after the call.
C1_ShortRowAloneSkipped ==
    \A f \in 1..Len(files) :
        (WriteEnded(f) /\ f \notin conn_log
            /\ \E r \in 1..Len(RowsToWrite(f)) : IsShort(RowsToWrite(f)[r])) =>
            \A r \in 1..Len(RowsToWrite(f)) :
                IF IsShort(RowsToWrite(f)[r])
                THEN \A k \in 1..Len(store) : store[k].subject # RowsToWrite(f)[r][1]
                ELSE HasOutcome(f, r, "rejected") \/ InStore(RowOf(f, r))

\* C2: no partial-document rollback: a row that write_sql inserted before a
\* later failure in the same file (a rejected insert or a malformed row) is
\* in the store when the batch ends.
C2_NoPartialRollback ==
    pc = "done" =>
        \A k \in 1..Len(row_log) :
            (/\ row_log[k].outcome = "inserted"
             /\ \E j \in (k + 1)..Len(row_log) :
                   /\ row_log[j].file = row_log[k].file
                   /\ row_log[j].outcome \in {"rejected", "IndexError"})
                => InStore(RowOf(row_log[k].file, row_log[k].idx))

\* C3: when setup_sql fails the batch does not proceed: iterate_files is not
\* called, no file is extracted and no row is inserted.
C3_SetupFailureStopsBatch ==
    setup_failed =>
        /\ pc \notin {"iterate", "write_sql", "rows"}
        /\ attempted = <<>>
        /\ row_log = <<>>

\* C8: when the store rejects the insert of row i of a file, the loop still
\* comes to every row after it and those whose insert succeeds are in the
\* store after the call; a failure to open the connection ends only that call
\* (no row of the file is tried), and the other files are still attempted.
C8_RowInsertIsolation ==
    /\ \A f \in 1..Len(files) :
          WriteEnded(f) =>
              /\ \A i \in 1..Len(RowsToWrite(f)) :
                    HasOutcome(f, i, "rejected") =>
                        \A j \in (i + 1)..Len(RowsToWrite(f)) :
                            /\ Reached(f, j)
                            /\ HasOutcome(f, j, "inserted") => InStore(RowOf(f, j))
              /\ f \in conn_log => \A k \in 1..Len(row_log) : row_log[k].file # f
    /\ pc = "done" => Len(attempted) = Len(files)

\* the rows derived from files 1..n: for each file that yields a result, in
\* order, one row per table row of six cells
RECURSIVE DerivedRows(_)
DerivedRows(n) ==
    IF n = 0 THEN <<>>
    ELSE DerivedRows(n - 1)
            \o (IF YieldsResult(n)
                THEN LET full == SelectSeq([r \in 1..Len(RowsToWrite(n)) |-> r],
                                           LAMBDA r : ~IsShort(RowsToWrite(n)[r]))
                     IN  [k \in 1..Len(full) |-> RowOf(n, full[k])]
                ELSE <<>>)

NoStoreRejection ==
    conn_log = {} /\ \A k \in 1..Len(row_log) : row_log[k].outcome # "rejected"

\* C9: whatever the store held before, a run of the batch (one in which
\* setup_sql succeeded and the store refused no connection and no insert)
\* leaves exactly the rows derived from the files, and none of the prior rows;
\* a second run on the same files therefore leaves the same rows.
C9_FullRebuild ==
    (pc = "done" /\ ~setup_failed /\ NoStoreRejection) =>
        /\ store = DerivedRows(Len(files))
        /\ \A k \in 1..Len(prior) : ~InStore(prior[k])

====
